---------------------------- MODULE Spec2Model ----------------------------
(***************************************************************************)
(* Model of the backtest simulator of backtest.js (src/unnamed/part_002,   *)
(* lines 729-1160): runBacktest(signals, candles).                         *)
(*                                                                         *)
(* Prices are positive integers.  The simulator's percentages are kept     *)
(* exact: a P&L fraction pnlPct = (exit - entry) / entry is represented by *)
(* the integer pnlPct * Scale, where Scale is a common multiple of every   *)
(* price, so sums and comparisons of P&L are exact rational arithmetic     *)
(* (IEEE rounding of the JavaScript doubles is not modelled).  The         *)
(* toFixed(2) formatting of a trade's pnl is modelled as rounding to       *)
(* hundredths of a percent.                                                *)
(***************************************************************************)
EXTENDS Integers, Sequences, FiniteSets, TLC

(***************************************************************************)
(* Bounds of the model.                                                    *)
(***************************************************************************)
MaxSignals == 4
MaxExtraCandles == 3

\* open/close prices of the candles: from 100, 97 is exactly -3%, 106 is
\* exactly +6%; 97 -> 106 and 106 -> 97 gap past the thresholds.
Prices == {97, 100, 106}

\* generateSignals yields multiples of 10 in [-100, 100] (line 916: twice a
\* sum of multiples of 5); these cover entry (|s| >= 20), reversal
\* (|s| > 5) and neither.
Scores == {-20, -10, 10, 20}

(***************************************************************************)
(* Program constants.                                                      *)
(***************************************************************************)
WarmUp_Late == 30 + 1
WarmUp == 30                \* first signal index (generateSignals, line 869)
ENTRY_THRESHOLD == 20       \* line 944
EXIT_THRESHOLD == 5         \* line 945
STOP_LOSS_PCT == 3          \* line 946: 0.03, here in percent
TAKE_PROFIT_PCT == 6        \* line 947: 0.06, here in percent
LOOKFORWARD_Zero == 1 - 1
LOOKFORWARD == 1            \* line 948

(***************************************************************************)
(* Exact arithmetic helpers.                                               *)
(***************************************************************************)
RECURSIVE Gcd(_, _)
Gcd(a, b) == IF b = 0 THEN a ELSE Gcd(b, a % b)

Lcm(a, b) == (a \div Gcd(a, b)) * b

RECURSIVE SetLcm(_)
SetLcm(S) == IF S = {} THEN 1
             ELSE LET x == CHOOSE y \in S : TRUE
                  IN Lcm(x, SetLcm(S \ {x}))

\* pnlPct * Scale is an integer for every entry price in Prices
Scale == SetLcm(Prices \cup {100})

Abs(x) == IF x < 0 THEN -x ELSE x

\* Number.prototype.toFixed: nearest integer to num/den, ties to the larger
\* magnitude (the sign is split off first); den > 0
RoundHalfAway(num, den) ==
    LET q == (2 * Abs(num) + den) \div (2 * den)
    IN IF num < 0 THEN -q ELSE q

\* value.toFixed(2) of a quantity held as units of 1/Scale of 100 percent,
\* in hundredths of a percent
Fixed2(units) == RoundHalfAway(units * 100, Scale \div 100)

VARIABLES
    signals,        \* argument: sequence of [idx, score]
    candles,        \* argument: candle index -> [o, c]
    i,              \* loop index of line 950 (0-based)
    position,       \* line 937
    trades,         \* line 936
    totalPnl,       \* line 938
    wins,           \* line 939
    losses,         \* line 939
    maxDrawdown,    \* line 940
    peak,           \* line 941
    equity,         \* line 942
    stats,          \* the returned stats (lines 1049-1060)
    opened,         \* history: every position assigned at lines 1013/1015
    pc              \* "loop", "done"

\* signal.js, main (lines 379-397)
VARIABLES
    data,           \* line 389: the MarketSnapshot collectData returned
    scores,         \* line 390: the factor scores of scoreSignals
    total,          \* line 391: aggregate(scores), in hundredths
    label,          \* line 392: getSignalLabel(total)
    spc             \* "collected", "scored", "done"; "off" outside signal.js

\* backtest.js, main (lines 1066-1111) and a direct call of generateSignals
VARIABLES
    series,         \* lines 863-865: rsiSeries, macdSeries, bbSeries of the candles
    mpc,            \* main: "fetched", "insufficient", "generated", "backtest"
    gpc             \* generateSignals called directly: "called", "returned"

\* the indicator functions applied to a close series
VARIABLES
    closes,         \* the argument: the closes of the candles, oldest first
    rsiLive,        \* signal.js calcRSI(candles), lines 116-144
    rsiSeries,      \* backtest.js calcRSI(closes), lines 789-819
    macdLive,       \* signal.js calcMACD(candles), lines 155-181
    done            \* the functions that have returned

\* signal.js, collectData (lines 29-112)
VARIABLES
    pending,        \* the requests of line 36 that have not settled
    outcome,        \* history: how each settled request ended
    cpc             \* "collecting", "resolved"; "off" outside collectData

btVars == <<signals, candles, i, position, trades, totalPnl, wins, losses,
            maxDrawdown, peak, equity, stats, opened, pc>>

scoreVars == <<data, scores, total, label, spc>>

mainVars == <<series, mpc, gpc>>

indVars == <<closes, rsiLive, rsiSeries, macdLive, done>>

collectVars == <<pending, outcome, cpc>>

vars == <<btVars, scoreVars, mainVars, indVars, collectVars>>

\* signal.js is not running
ScoreOff ==
    /\ data = <<>>
    /\ scores = <<>>
    /\ total = 0
    /\ label = "none"
    /\ spc = "off"

\* neither main of backtest.js nor a direct call of generateSignals is running
MainOff ==
    /\ series = <<>>
    /\ mpc = "off"
    /\ gpc = "off"

\* no indicator function is being applied
IndOff ==
    /\ closes = <<>>
    /\ rsiLive = <<>>
    /\ rsiSeries = <<>>
    /\ macdLive = <<>>
    /\ done = {}

\* collectData is not running
CollectOff ==
    /\ pending = {}
    /\ outcome = <<>>
    /\ cpc = "off"

NoPosition == [side |-> "none"]
NoStats == [totalTrades |-> -1]

\* candles.length: generateSignals gives one signal per candle index >= 30
CandlesLength == IF Len(signals) = 0 THEN WarmUp ELSE WarmUp + Len(signals)

LastIdx == CandlesLength - 1

\* a field of the candle array that runBacktest never reads is pinned
RestPrice == CHOOSE p \in Prices : \A q \in Prices : p <= q

\* the signals generateSignals returns: idx = 30 + k, ascending
SignalSeqs(m) ==
    { [k \in 1..m |-> [idx |-> WarmUp + k - 1, score |-> sc[k]]] :
        sc \in [1..m -> Scores] }

\* the candles from index WarmUp on; only the opens after WarmUp and the
\* last close are read by runBacktest
CandleArrays(m) ==
    { [j \in WarmUp..(WarmUp + m - 1) |->
         [o |-> IF j = WarmUp THEN RestPrice ELSE op[j],
          c |-> IF j = WarmUp + m - 1 THEN cl ELSE RestPrice]] :
        op \in [WarmUp..(WarmUp + m - 1) \ {WarmUp} -> Prices], cl \in Prices }

Init ==
    /\ \E m \in 0..MaxSignals :
          /\ signals \in SignalSeqs(m)
          /\ candles \in CandleArrays(m)
    /\ i = 0
    /\ position = NoPosition
    /\ trades = <<>>
    /\ totalPnl = 0
    /\ wins = 0
    /\ losses = 0
    /\ maxDrawdown = 0
    /\ peak = 0
    /\ equity = 0
    /\ stats = NoStats
    /\ opened = <<>>
    /\ pc = "loop"
    /\ ScoreOff
    /\ MainOff
    /\ IndOff
    /\ CollectOff

(***************************************************************************)
(* runBacktest, lines 935-1062.                                            *)
(***************************************************************************)

\* lines 958-960 / 1023-1025: pnlPct, as pnlPct * Scale
PnlUnits(pos, price) ==
    IF pos.side = "long"
    THEN (price - pos.entry) * (Scale \div pos.entry)
    ELSE (pos.entry - price) * (Scale \div pos.entry)

\* line 962: pnlPct <= -STOP_LOSS_PCT
StopHit_Strict(u) == u * 100 < -STOP_LOSS_PCT * Scale
StopHit(u) == u * 100 <= -STOP_LOSS_PCT * Scale

\* line 962: pnlPct >= TAKE_PROFIT_PCT
TakeHit(u) == u * 100 >= TAKE_PROFIT_PCT * Scale

\* line 976: the reason of a threshold exit
ThresholdReason_Swapped(u) == IF TakeHit(u) THEN "stop_loss" ELSE "take_profit"
ThresholdReason(u) == IF TakeHit(u) THEN "take_profit" ELSE "stop_loss"

\* lines 986-987
Reversed_SignSlip(pos, score) ==
    \/ pos.side = "long" /\ score < EXIT_THRESHOLD
    \/ pos.side = "short" /\ score > -EXIT_THRESHOLD
Reversed(pos, score) ==
    \/ pos.side = "long" /\ score < -EXIT_THRESHOLD
    \/ pos.side = "short" /\ score > EXIT_THRESHOLD

\* line 1011: if (!position)
CanOpen_Always(pos) == TRUE
CanOpen(pos) == pos = NoPosition

\* line 1012
LongEntry_Exit(score) == score >= EXIT_THRESHOLD
LongEntry(score) == score >= ENTRY_THRESHOLD

\* line 1014
ShortEntry_Exit(score) == score <= -EXIT_THRESHOLD
ShortEntry(score) == score <= -ENTRY_THRESHOLD

\* lines 1013/1015: entryIdx
EntryIdx_Late(sig) == sig.idx + LOOKFORWARD + 1
EntryIdx(sig) == sig.idx + LOOKFORWARD

\* lines 1010-1017: the position after the entry check
Entry(pos, sig, execPrice) ==
    IF CanOpen(pos)
    THEN IF LongEntry(sig.score)
         THEN [side |-> "long", entry |-> execPrice,
               entryIdx |-> EntryIdx(sig), score |-> sig.score]
         ELSE IF ShortEntry(sig.score)
         THEN [side |-> "short", entry |-> execPrice,
               entryIdx |-> EntryIdx(sig), score |-> sig.score]
         ELSE pos
    ELSE pos

\* lines 981-982: position = null; continue (no entry check on this bar)
AfterThresholdExit_FallThrough(sig, execPrice) == Entry(NoPosition, sig, execPrice)
AfterThresholdExit(sig, execPrice) == NoPosition

\* lines 971-980 / 996-1005 / 1029-1038: the trade pushed on a close.
\* entryTime and exitTime are the candle timestamps, represented by the
\* candle index; exitIdx is the index of the candle that gave the exit price
Trade_EntryAtSignalBar(pos, price, units, reason, exitIdx, holdBars) ==
    [side |-> pos.side, entry |-> pos.entry, exit |-> price,
     pnl |-> Fixed2(units), reason |-> reason,
     entryIdx |-> pos.entryIdx - LOOKFORWARD, exitIdx |-> exitIdx,
     holdBars |-> holdBars]
Trade(pos, price, units, reason, exitIdx, holdBars) ==
    [side |-> pos.side, entry |-> pos.entry, exit |-> price,
     pnl |-> Fixed2(units), reason |-> reason,
     entryIdx |-> pos.entryIdx, exitIdx |-> exitIdx, holdBars |-> holdBars]

\* lines 970 / 995 / 1028: if (pnl > 0) wins++; else losses++
IsWin_OrZero(units) == units >= 0
IsWin(units) == units > 0

\* lines 963-970 / 988-995: bookkeeping of a close inside the loop
BookInLoop(units) ==
    LET eq == equity + units
        pk == IF eq > peak THEN eq ELSE peak
        dd == pk - eq
    IN /\ totalPnl' = totalPnl + units
       /\ equity' = eq
       /\ peak' = pk
       /\ maxDrawdown' = IF dd > maxDrawdown THEN dd ELSE maxDrawdown
       /\ IF IsWin(units)
          THEN wins' = wins + 1 /\ losses' = losses
          ELSE wins' = wins /\ losses' = losses + 1

Unbooked == UNCHANGED <<totalPnl, equity, peak, maxDrawdown, wins, losses>>

\* the history of opened positions
Record(pos) ==
    opened' = IF pos # NoPosition /\ pos # position
              THEN Append(opened, pos) ELSE opened

\* one iteration of the loop of lines 950-1018
Bar ==
    /\ pc = "loop"
    /\ i < Len(signals) - LOOKFORWARD
    /\ LET sig == signals[i + 1]
           nextIdx == sig.idx + LOOKFORWARD
       IN IF nextIdx \notin DOMAIN candles
          THEN \* line 953: continue
               /\ UNCHANGED <<position, trades, opened>>
               /\ Unbooked
          ELSE LET execPrice == candles[nextIdx].o
                   units == PnlUnits(position, execPrice)
               IN IF position # NoPosition /\ (StopHit(units) \/ TakeHit(units))
                  THEN \* lines 962-983: stop-loss / take-profit, continue
                       /\ BookInLoop(units)
                       /\ trades' = Append(trades,
                             Trade(position, execPrice, units,
                                   ThresholdReason(units), nextIdx,
                                   sig.idx - position.entryIdx))
                       /\ position' = AfterThresholdExit(sig, execPrice)
                       /\ Record(position')
                  ELSE IF position # NoPosition /\ Reversed(position, sig.score)
                  THEN \* lines 986-1007, then the entry check
                       /\ BookInLoop(units)
                       /\ trades' = Append(trades,
                             Trade(position, execPrice, units,
                                   "signal_reversal", nextIdx,
                                   sig.idx - position.entryIdx))
                       /\ position' = Entry(NoPosition, sig, execPrice)
                       /\ Record(position')
                  ELSE \* lines 1010-1017
                       /\ position' = Entry(position, sig, execPrice)
                       /\ Record(position')
                       /\ UNCHANGED trades
                       /\ Unbooked
    /\ i' = i + 1
    /\ UNCHANGED <<signals, candles, stats, pc>>
    /\ UNCHANGED <<scoreVars, mainVars, indVars, collectVars>>

\* line 1021: if (position)
MustForceClose_Never(pos) == FALSE
MustForceClose(pos) == pos # NoPosition

\* lines 1020-1061: forced close of an open position, statistics, return
Finish ==
    /\ pc = "loop"
    /\ ~(i < Len(signals) - LOOKFORWARD)
    /\ IF MustForceClose(position)
       THEN LET lastPrice == candles[CandlesLength - 1].c
                units == PnlUnits(position, lastPrice)
            IN /\ totalPnl' = totalPnl + units
               /\ IF IsWin(units)
                  THEN wins' = wins + 1 /\ losses' = losses
                  ELSE wins' = wins /\ losses' = losses + 1
               /\ trades' = Append(trades,
                     Trade(position, lastPrice, units, "end_of_data",
                           CandlesLength - 1,
                           CandlesLength - 1 - position.entryIdx))
               /\ UNCHANGED <<equity, peak, maxDrawdown>>
       ELSE /\ UNCHANGED trades
            /\ Unbooked
    /\ stats' = [totalTrades |-> wins' + losses',
                 wins |-> wins',
                 losses |-> losses',
                 totalPnl |-> Fixed2(totalPnl'),
                 maxDrawdown |-> Fixed2(maxDrawdown')]
    /\ pc' = "done"
    /\ UNCHANGED <<signals, candles, i, position, opened>>
    /\ UNCHANGED <<scoreVars, mainVars, indVars, collectVars>>

Next == Bar \/ Finish

Spec == Init /\ [][Next]_vars

(***************************************************************************)
(* Properties of runBacktest.  They are stated from the candles, the       *)
(* signals and the ledger, with their own arithmetic on the prices.        *)
(***************************************************************************)

\* a step of the loop body
BarStep == pc = "loop" /\ i' = i + 1

\* the signal the loop body reads in this step, and its execution price
CurSig == signals[i + 1]
CurExec == candles[CurSig.idx + 1].o

\* the step pushes a trade
Closes == Len(trades') = Len(trades) + 1
NewTrade == trades'[Len(trades')]

\* unrealized P&L of the open position at price p is <= -3% / >= +6%
LossAt(pos, p) ==
    IF pos.side = "long" THEN 100 * (p - pos.entry) <= -3 * pos.entry
                         ELSE 100 * (pos.entry - p) <= -3 * pos.entry
GainAt(pos, p) ==
    IF pos.side = "long" THEN 100 * (p - pos.entry) >= 6 * pos.entry
                         ELSE 100 * (pos.entry - p) >= 6 * pos.entry

\* trade t is the closing trade of position pos
ClosesPosition(t, pos) ==
    t.side = pos.side /\ t.entry = pos.entry /\ t.entryIdx = pos.entryIdx

LastTrade == trades[Len(trades)]

\* C1: a position is opened only when no position is open: whenever a step
\* installs a new position, either there was none before, or the step
\* records the closing trade of the position that was open.
C1_OnePosition ==
    [][ (position' # position /\ position' # NoPosition)
          => /\ position'.side \in {"long", "short"}
             /\ \/ position = NoPosition
                \/ Closes /\ trades' = Append(trades, NewTrade)
                          /\ ClosesPosition(NewTrade, position) ]_vars

\* C1 witness: a second position is open after an earlier one was closed
C1_Witness ==
    /\ position # NoPosition
    /\ Len(opened) >= 2
    /\ Len(trades) = Len(opened) - 1

\* C2: when the open position's unrealized P&L at the execution price is
\* <= -3% (>= +6%), the bar closes it with reason stop_loss (take_profit)
\* whatever the score, and a signal_reversal trade is recorded only when
\* neither threshold is met.
C2_ThresholdPriority ==
    [][ (BarStep /\ position # NoPosition)
          => /\ LossAt(position, CurExec)
                  => /\ Closes /\ NewTrade.reason = "stop_loss"
                     /\ ClosesPosition(NewTrade, position)
                     /\ NewTrade.exit = CurExec
             /\ GainAt(position, CurExec)
                  => /\ Closes /\ NewTrade.reason = "take_profit"
                     /\ ClosesPosition(NewTrade, position)
                     /\ NewTrade.exit = CurExec
             /\ (Closes /\ NewTrade.reason = "signal_reversal")
                  => ~LossAt(position, CurExec) /\ ~GainAt(position, CurExec)
      ]_vars

\* the signal from which the exit of non-final trade t was decided
ExitSignal(t) == signals[t.exitIdx - WarmUp]

\* C2 witness: a long was stopped out at exactly -3% on a bar whose score
\* also asked for a reversal
C2_Witness ==
    \E k \in 1..Len(trades) :
        /\ trades[k].reason = "stop_loss" /\ trades[k].side = "long"
        /\ trades[k].pnl = -300
        /\ ExitSignal(trades[k]).score = -20

\* the position line 1013 / 1015 opens from the current signal
OpensAt(side) ==
    position' = [side |-> side, entry |-> CurExec,
                 entryIdx |-> CurSig.idx + 1, score |-> CurSig.score]

EntryRule ==
    /\ CurSig.score >= 20 => OpensAt("long")
    /\ CurSig.score <= -20 => OpensAt("short")
    /\ (CurSig.score > -20 /\ CurSig.score < 20) => position' = NoPosition

\* C3 as stated: on every bar that is flat after its exit checks, a bar
\* that has just closed a position by stop-loss, take-profit or reversal
\* included, the entry rule is applied.
C3_Original ==
    [][ (BarStep /\ (position = NoPosition \/ Closes)) => EntryRule ]_vars

\* C3 amended: the entry rule is applied on a bar that starts flat or that
\* has just closed a position by signal reversal; a bar that closes a
\* position by stop-loss or take-profit opens nothing, whatever the score.
C3_EntryWhenFlat ==
    [][ BarStep =>
          /\ (position = NoPosition
               \/ (Closes /\ NewTrade.reason = "signal_reversal")) => EntryRule
          /\ (Closes /\ NewTrade.reason \in {"stop_loss", "take_profit"})
               => position' = NoPosition ]_vars

\* C3 witness: the bar just processed stopped a position out (or took
\* profit) on an entry-strength score, and the simulator is flat
C3_Witness ==
    /\ pc = "loop" /\ i >= 1 /\ Len(trades) >= 1
    /\ LastTrade.reason \in {"stop_loss", "take_profit"}
    /\ LastTrade.exitIdx = signals[i].idx + 1
    /\ signals[i].score \in {-20, 20}
    /\ position = NoPosition

\* C4 as stated: no bar both records a closing trade and opens a position.
C4_Original ==
    [][ BarStep => ~(Closes /\ position' # NoPosition) ]_vars

\* C4 amended: a bar that records a stop-loss or take-profit trade opens
\* no position; a bar that records a signal-reversal trade may open one,
\* and then only on the opposite side, from a score of entry strength.
C4_ExitThenEntry ==
    [][ (BarStep /\ Closes /\ position' # NoPosition)
          => /\ NewTrade.reason = "signal_reversal"
             /\ position'.side # position.side
             /\ position'.entry = NewTrade.exit
             /\ position'.entryIdx = NewTrade.exitIdx
             /\ IF position'.side = "long" THEN CurSig.score >= 20
                                           ELSE CurSig.score <= -20 ]_vars

\* C4 witness: a reversal trade and the opposite position on the same bar
C4_Witness ==
    /\ position # NoPosition /\ Len(trades) >= 1
    /\ LastTrade.reason = "signal_reversal"
    /\ LastTrade.exitIdx = position.entryIdx
    /\ LastTrade.side # position.side

\* C5 as stated: every trade, the end_of_data trade included, exits at a
\* candle index strictly greater than its entry index.
C5_Original ==
    \A k \in 1..Len(trades) : trades[k].exitIdx > trades[k].entryIdx

\* C5 amended: a stop-loss, take-profit or reversal trade exits at a candle
\* index strictly greater than its entry index; the end_of_data trade exits
\* at the last candle, whose index is greater than or equal to the entry
\* index (equal when the position was entered at the open of the last
\* candle).
C5_ExitAfterEntry ==
    \A k \in 1..Len(trades) :
        IF trades[k].reason = "end_of_data"
        THEN /\ trades[k].exitIdx = LastIdx
             /\ trades[k].exitIdx >= trades[k].entryIdx
             /\ trades[k].holdBars = trades[k].exitIdx - trades[k].entryIdx
        ELSE /\ trades[k].exitIdx > trades[k].entryIdx
             /\ trades[k].holdBars = trades[k].exitIdx - 1 - trades[k].entryIdx

\* C5 witness: an end_of_data trade entered and exited on the last candle,
\* after an earlier trade closed inside the loop
C5_Witness ==
    /\ Len(trades) >= 2
    /\ LastTrade.reason = "end_of_data"
    /\ LastTrade.exitIdx = LastTrade.entryIdx

\* the processed signals: all but the final one
Deciding == 1..(Len(signals) - 1)

\* C6: every entry and every stop-loss, take-profit or reversal exit is
\* decided from a non-final signal of candle k and executed at the open of
\* candle k+1, with k+1 as recorded index; the final signal is never
\* processed.
C6_OneBarLag ==
    /\ i <= Len(signals) - 1 \/ Len(signals) = 0
    /\ position # NoPosition =>
          /\ position.entry = candles[position.entryIdx].o
          /\ \E k \in Deciding : /\ k <= i
                                 /\ signals[k].idx + 1 = position.entryIdx
                                 /\ signals[k].score = position.score
    /\ \A n \in 1..Len(opened) :
          /\ opened[n].entry = candles[opened[n].entryIdx].o
          /\ \E k \in Deciding : /\ k <= i
                                 /\ signals[k].idx + 1 = opened[n].entryIdx
                                 /\ signals[k].score = opened[n].score
    /\ \A n \in 1..Len(trades) :
          trades[n].reason # "end_of_data" =>
             /\ trades[n].exit = candles[trades[n].exitIdx].o
             /\ \E k \in Deciding : k <= i /\ signals[k].idx + 1 = trades[n].exitIdx

\* C6 witness: the run is over, the final signal had entry strength, yet
\* the simulator ended flat after trading
C6_Witness ==
    /\ pc = "done" /\ Len(signals) >= 3
    /\ signals[Len(signals)].score = 20
    /\ position = NoPosition
    /\ Len(trades) >= 1

\* C7: when runBacktest finishes, every position ever opened has exactly one
\* trade in the ledger, in order, and a position still open after the loop
\* was closed at the close of the last candle with reason end_of_data.
C7_AllClosed ==
    pc = "done" =>
       /\ Len(trades) = Len(opened)
       /\ \A k \in 1..Len(trades) : ClosesPosition(trades[k], opened[k])
       /\ position # NoPosition =>
             /\ Len(trades) >= 1
             /\ ClosesPosition(LastTrade, position)
             /\ LastTrade.reason = "end_of_data"
             /\ LastTrade.exit = candles[LastIdx].c
       /\ \A k \in 1..Len(trades) :
             trades[k].reason = "end_of_data" => k = Len(trades) /\ position # NoPosition

\* C7 witness: the run ended with a forced close after an earlier trade
C7_Witness ==
    /\ pc = "done" /\ Len(trades) >= 2
    /\ LastTrade.reason = "end_of_data"
    /\ LastTrade.exit # LastTrade.entry

\* every score lies strictly between -20 and +20
AllScoresWeak == \A k \in 1..Len(signals) : signals[k].score > -20 /\ signals[k].score < 20

\* C8: when every score lies strictly between -20 and +20 the ledger is
\* empty and totalTrades, wins and losses are 0, whatever the prices.
C8_NoCrossingNoTrade ==
    AllScoresWeak =>
       /\ trades = <<>> /\ position = NoPosition /\ opened = <<>>
       /\ pc = "done" => /\ stats.totalTrades = 0
                         /\ stats.wins = 0
                         /\ stats.losses = 0

\* C8 witness: a finished run over weak scores of both signs and over
\* opens that gap
C8_Witness ==
    /\ pc = "done" /\ Len(signals) >= 3 /\ AllScoresWeak
    /\ \E k \in 1..Len(signals) : signals[k].score = 10
    /\ \E k \in 1..Len(signals) : signals[k].score = -10
    /\ \E j \in DOMAIN candles : candles[j].o = 106
    /\ \E j \in DOMAIN candles : candles[j].o = 97
    /\ stats.totalTrades = 0

\* C9 as stated: every recorded pnl_percent lies within [-3%, +6%].
C9_Original ==
    \A k \in 1..Len(trades) : trades[k].pnl >= -300 /\ trades[k].pnl <= 600

\* C9 amended: a signal_reversal trade has a pnl_percent within [-3%, +6%];
\* a stop_loss trade has pnl_percent <= -3% and a take_profit trade
\* pnl_percent >= +6%, both unbounded on the far side because the fill is
\* the next open; an end_of_data trade is not bounded by the thresholds.
C9_PnlByReason ==
    \A k \in 1..Len(trades) :
        /\ trades[k].reason = "signal_reversal"
              => trades[k].pnl >= -300 /\ trades[k].pnl <= 600
        /\ trades[k].reason = "stop_loss" => trades[k].pnl <= -300
        /\ trades[k].reason = "take_profit" => trades[k].pnl >= 600
        /\ trades[k].pnl =
              RoundHalfAway(
                 (IF trades[k].side = "long" THEN trades[k].exit - trades[k].entry
                                             ELSE trades[k].entry - trades[k].exit) * 10000,
                 trades[k].entry)

\* C9 witness: a reversal trade, then a stop-loss filled beyond -3%
C9_Witness ==
    /\ Len(trades) >= 2
    /\ trades[1].reason = "signal_reversal"
    /\ LastTrade.reason = "stop_loss" /\ LastTrade.pnl < -300

\* exact pnl of a ledger trade, in the units of totalPnl
TradePnl(t) ==
    (IF t.side = "long" THEN t.exit - t.entry ELSE t.entry - t.exit)
       * (Scale \div t.entry)

\* cumulative pnl of the first n trades
RECURSIVE Cum(_)
Cum(n) == IF n = 0 THEN 0 ELSE Cum(n - 1) + TradePnl(trades[n])

\* highest cumulative pnl over the prefixes up to n, starting from 0
RECURSIVE PeakTo(_)
PeakTo(n) == IF n = 0 THEN 0
             ELSE IF Cum(n) > PeakTo(n - 1) THEN Cum(n) ELSE PeakTo(n - 1)

\* largest peak-to-current drop over the prefixes up to n
RECURSIVE LedgerDrawdown(_)
LedgerDrawdown(n) ==
    IF n = 0 THEN 0
    ELSE IF PeakTo(n) - Cum(n) > LedgerDrawdown(n - 1)
         THEN PeakTo(n) - Cum(n) ELSE LedgerDrawdown(n - 1)

\* C10: the reported maxDrawdown is the largest peak-to-current drop of the
\* cumulative pnl over the complete ledger, the end_of_data trade included,
\* and the equity used for it equals the cumulative P&L after the last
\* trade.
C10_DrawdownOverLedger ==
    pc = "done" =>
       /\ maxDrawdown = LedgerDrawdown(Len(trades))
       /\ stats.maxDrawdown = Fixed2(LedgerDrawdown(Len(trades)))
       /\ equity = totalPnl
       /\ totalPnl = Cum(Len(trades))

\* the ledger trades whose exact pnl is positive
WinningTrades == { k \in 1..Len(trades) : TradePnl(trades[k]) > 0 }

Undefined == 0 - 1000002
NaN == 0 - 1000001
IsNum(x) == x # Undefined /\ x # NaN

\* a relational comparison with undefined or NaN is false
Lt(a, b) == IsNum(a) /\ IsNum(b) /\ a < b
Gt(a, b) == IsNum(a) /\ IsNum(b) /\ a > b
Le(a, b) == IsNum(a) /\ IsNum(b) /\ a <= b
Ge(a, b) == IsNum(a) /\ IsNum(b) /\ a >= b

\* data.f, undefined when the field is absent
Field(d, f) == IF f \in DOMAIN d THEN d[f] ELSE Undefined

\* data.f?.length
Length(d, f) ==
    IF f \notin DOMAIN d THEN Undefined
    ELSE IF f = "candles" THEN d[f].len ELSE Len(d[f])

\* if (x): a number is truthy unless it is 0 or NaN
Truthy(x) == IsNum(x) /\ x # 0

RECURSIVE SeqSum(_)
SeqSum(q) == IF q = <<>> THEN 0 ELSE Head(q) + SeqSum(Tail(q))

\* line 117: calcRSI returns 50 below period + 1 candles
CalcRSI(c) == IF c.len < 15 THEN 50 ELSE c.rsi

\* lines 156, 167, 170: macdLine has length - 25 entries; below 9 entries
\* signal and hist are 0
CalcMACD(c) ==
    IF c.len < 26 THEN [macd |-> 0, signal |-> 0, hist |-> 0]
    ELSE IF c.len - 25 < 9 THEN [macd |-> c.macd, signal |-> 0, hist |-> 0]
    ELSE [macd |-> c.macd,
          signal |-> IF IsNum(c.macd) /\ IsNum(c.hist) THEN c.macd - c.hist ELSE NaN,
          hist |-> c.hist]

\* line 184: calcBollinger returns null below period candles
HasBollinger(c) == c.len >= 20

\* line 206
FundingPresent_Always(d) == TRUE
FundingPresent(d) == Field(d, "fundingRate") # Undefined

\* lines 208-213
FundingScore_Inclusive(fr) ==
    IF Le(fr, -10) THEN 30
    ELSE IF Le(fr, -3) THEN 15
    ELSE IF Le(fr, 5) THEN 0
    ELSE IF Le(fr, 10) THEN -15
    ELSE -30
FundingScore(fr) ==
    IF Lt(fr, -10) THEN 30
    ELSE IF Lt(fr, -3) THEN 15
    ELSE IF Lt(fr, 5) THEN 0
    ELSE IF Lt(fr, 10) THEN -15
    ELSE -30

\* lines 205-216
FundingPart(d) ==
    IF FundingPresent(d)
    THEN "funding" :> FundingScore(Field(d, "fundingRate"))
    ELSE <<>>

\* lines 220-229; the averages are compared by cross-multiplication
TrendScore(h) ==
    LET recent == SubSeq(h, 1, 3)
        older == SubSeq(h, 4, Len(h))
        sumR == SeqSum(recent)
        sumO == SeqSum(older)
        falling == Len(older) > 0 /\ sumR * Len(older) < sumO * 3
        rising == Len(older) > 0 /\ sumR * Len(older) > sumO * 3
    IN IF falling /\ sumR < 0 THEN 20
       ELSE IF falling THEN 10
       ELSE IF rising /\ sumR > 8 * 3 THEN -20
       ELSE IF rising THEN -10
       ELSE 0

\* lines 218-232
TrendPart(d) ==
    IF Ge(Length(d, "fundingHistory"), 3)
    THEN "fundingTrend" :> TrendScore(d.fundingHistory)
    ELSE <<>>

\* lines 237-241
LongShortBase(ls) ==
    IF Gt(ls, 350) THEN -25
    ELSE IF Gt(ls, 280) THEN -10
    ELSE IF Lt(ls, 120) THEN 25
    ELSE IF Lt(ls, 180) THEN 10
    ELSE 0

\* lines 246-253
LongShortTrend_Double(cur, prev) ==
    IF Truthy(prev)
    THEN LET change == cur - prev
         IN IF Abs(change) > 30
            THEN (IF change > 0 THEN -10 ELSE 10)
            ELSE 0
    ELSE 0
LongShortTrend(cur, prev) ==
    IF Truthy(prev)
    THEN LET change == cur - prev
         IN IF Abs(change) > 30
            THEN (IF change > 0 THEN -5 ELSE 5)
            ELSE 0
    ELSE 0

\* lines 234-254
LongShortPart(d) ==
    IF Truthy(Field(d, "longShortCurrent"))
    THEN "longShort" :> (LongShortBase(d.longShortCurrent)
                          + LongShortTrend(d.longShortCurrent,
                                           Field(d, "longShortPrev")))
    ELSE <<>>

\* lines 259-266
FearGreedScore(fg) ==
    IF Le(fg, 10) THEN 30
    ELSE IF Le(fg, 25) THEN 15
    ELSE IF Le(fg, 45) THEN 5
    ELSE IF Le(fg, 55) THEN 0
    ELSE IF Le(fg, 75) THEN -5
    ELSE IF Le(fg, 90) THEN -15
    ELSE -30

\* lines 256-269
FearGreedPart(d) ==
    IF Field(d, "fearGreed") # Undefined
    THEN "fearGreed" :> FearGreedScore(d.fearGreed)
    ELSE <<>>

\* lines 274-280
RsiScore(rsi) ==
    IF Lt(rsi, 20) THEN 30
    ELSE IF Lt(rsi, 30) THEN 15
    ELSE IF Lt(rsi, 45) THEN 5
    ELSE IF Gt(rsi, 80) THEN -30
    ELSE IF Gt(rsi, 70) THEN -15
    ELSE IF Gt(rsi, 55) THEN -5
    ELSE 0

\* lines 271-283
RsiPart(d) ==
    IF Ge(Length(d, "candles"), 15)
    THEN "rsi" :> RsiScore(CalcRSI(d.candles))
    ELSE <<>>

\* lines 288-292
MacdScore(m) ==
    IF Gt(m.hist, 0) /\ Gt(m.macd, 0) THEN 15
    ELSE IF Gt(m.hist, 0) THEN 10
    ELSE IF Lt(m.hist, 0) /\ Lt(m.macd, 0) THEN -15
    ELSE IF Lt(m.hist, 0) THEN -10
    ELSE 0

\* lines 285-295
MacdPart(d) ==
    IF Ge(Length(d, "candles"), 30)
    THEN "macd" :> MacdScore(CalcMACD(d.candles))
    ELSE <<>>

\* lines 301-305
BollingerScore(pctB) ==
    IF Lt(pctB, 0) THEN 20
    ELSE IF Lt(pctB, 20) THEN 10
    ELSE IF Gt(pctB, 100) THEN -20
    ELSE IF Gt(pctB, 80) THEN -10
    ELSE 0

\* lines 297-309
BollingerPart(d) ==
    IF Ge(Length(d, "candles"), 20) /\ HasBollinger(d.candles)
    THEN "bollinger" :> BollingerScore(d.candles.pctB)
    ELSE <<>>

\* lines 315-320: longPct = liqLong / total against 0.8, 0.6, 0.2, 0.4
LiquidationScore(liqLong, liqTotal) ==
    IF 10 * liqLong > 8 * liqTotal THEN 15
    ELSE IF 10 * liqLong > 6 * liqTotal THEN 5
    ELSE IF 10 * liqLong < 2 * liqTotal THEN -15
    ELSE IF 10 * liqLong < 4 * liqTotal THEN -5
    ELSE 0

\* lines 311-324
LiquidationPart(d) ==
    IF Field(d, "liqLong") # Undefined /\ Field(d, "liqShort") # Undefined
    THEN IF d.liqLong + d.liqShort > 0
         THEN "liquidation" :> LiquidationScore(d.liqLong, d.liqLong + d.liqShort)
         ELSE <<>>
    ELSE <<>>

\* lines 201-327: the scores object scoreSignals returns
ScoresOf(d) ==
    FundingPart(d) @@ TrendPart(d) @@ LongShortPart(d) @@ FearGreedPart(d)
       @@ RsiPart(d) @@ MacdPart(d) @@ BollingerPart(d) @@ LiquidationPart(d)

\* lines 332-341
Weights_HeavyMacd ==
    << <<"funding", 15>>, <<"fundingTrend", 10>>, <<"longShort", 15>>,
       <<"fearGreed", 15>>, <<"rsi", 15>>, <<"macd", 15>>,
       <<"bollinger", 10>>, <<"liquidation", 10>> >>
Weights ==
    << <<"funding", 15>>, <<"fundingTrend", 10>>, <<"longShort", 15>>,
       <<"fearGreed", 15>>, <<"rsi", 15>>, <<"macd", 10>>,
       <<"bollinger", 10>>, <<"liquidation", 10>> >>

\* lines 346-351: totalScore after the first n weights
RECURSIVE TotalScore(_, _)
TotalScore(sc, n) ==
    IF n = 0 THEN 0
    ELSE TotalScore(sc, n - 1)
          + (IF Weights[n][1] \in DOMAIN sc
             THEN sc[Weights[n][1]] * Weights[n][2] ELSE 0)

\* lines 346-351: totalWeight after the first n weights
RECURSIVE TotalWeight(_, _)
TotalWeight_All(sc, n) == SeqSum([k \in 1..n |-> Weights[k][2]])
TotalWeight(sc, n) ==
    IF n = 0 THEN 0
    ELSE TotalWeight(sc, n - 1)
          + (IF Weights[n][1] \in DOMAIN sc THEN Weights[n][2] ELSE 0)

\* Math.round(num / den): the nearest integer, ties upwards; den > 0
MathRound(num, den) == (2 * num + den) \div (2 * den)

\* lines 353-354: Math.round(totalScore / totalWeight * 100) / 100, in
\* hundredths
Normalize_NoDivide(ts, tw) == IF tw = 0 THEN 0 ELSE ts * 100
Normalize(ts, tw) == IF tw = 0 THEN 0 ELSE MathRound(ts * 100, tw)

\* lines 331-355
Aggregate(sc) ==
    Normalize(TotalScore(sc, Len(Weights)), TotalWeight(sc, Len(Weights)))

\* lines 357-365, score in hundredths
GetSignalLabel(score) ==
    IF score >= 1500 THEN "strong_long"
    ELSE IF score >= 800 THEN "long"
    ELSE IF score >= 300 THEN "light_long"
    ELSE IF score > -300 THEN "wait"
    ELSE IF score > -800 THEN "light_short"
    ELSE IF score > -1500 THEN "short"
    ELSE "strong_short"

(***************************************************************************)
(* The MarketSnapshots collectData can return: every field independently   *)
(* present or absent.                                                      *)
(***************************************************************************)
FundingOpts ==
    {<<>>} \cup { "fundingRate" :> v : v \in {-20, -10, -5, -3, 0, 5, 7, 10, 20} }

HistoryOpts ==
    {<<>>} \cup { "fundingHistory" :> h :
                    h \in { <<1, 2>>, <<2, 2, 2>>, <<-3, -3, -3, 0, 0, 0>>,
                            <<9, 9, 9, 1, 1, 1>> } }

LongShortOpts ==
    {<<>>, "longShortCurrent" :> 0, "longShortCurrent" :> 100,
     "longShortCurrent" :> 400, "longShortPrev" :> 100,
     "longShortCurrent" :> 300,
     ("longShortCurrent" :> 150) @@ ("longShortPrev" :> 150),
     ("longShortCurrent" :> 200) @@ ("longShortPrev" :> 260),
     ("longShortCurrent" :> 100) @@ ("longShortPrev" :> 400),
     ("longShortCurrent" :> 400) @@ ("longShortPrev" :> 100)}

FearGreedOpts == {<<>>} \cup { "fearGreed" :> v : v \in {5, 50, 95} }

LiquidationOpts ==
    {<<>>, "liqLong" :> 9, "liqShort" :> 9,
     ("liqLong" :> 0) @@ ("liqShort" :> 0),
     ("liqLong" :> 9) @@ ("liqShort" :> 1),
     ("liqLong" :> 1) @@ ("liqShort" :> 9)}

Candles(len, ordered, finite, rsi, macd, hist, pctB) ==
    [len |-> len, ordered |-> ordered, finite |-> finite,
     rsi |-> rsi, macd |-> macd, hist |-> hist, pctB |-> pctB]

\* candle arrays: lengths around the 15 / 20 / 30 guards, the 50 candles of
\* line 73; strong indicator values of both signs, neutral values, an
\* array not ascending in time, an array with NaN closes
CandleValues ==
    { Candles(14, TRUE, TRUE, 50, 0, 0, 50) }
    \cup { Candles(15, TRUE, TRUE, r, 0, 0, 50) : r \in {15, 90} }
    \cup { Candles(20, TRUE, TRUE, 50, 0, 0, b) : b \in {-10, 110} }
    \cup { Candles(30, TRUE, TRUE, 50, m, 0, 50) : m \in {-5, 5} }
    \cup { Candles(50, TRUE, TRUE, r, m, m, -10) : r \in {15, 90}, m \in {-5, 5} }
    \cup { Candles(50, TRUE, TRUE, 90, -5, -5, 110) }
    \cup { Candles(50, TRUE, TRUE, 50, 0, 0, 50),
           Candles(50, FALSE, TRUE, 15, 5, 5, -10),
           Candles(50, TRUE, FALSE, NaN, NaN, NaN, NaN) }

CandleOpts == {<<>>} \cup { "candles" :> c : c \in CandleValues }

Snapshots ==
    { f @@ h @@ l @@ g @@ c @@ q :
        f \in FundingOpts, h \in HistoryOpts, l \in LongShortOpts,
        g \in FearGreedOpts, c \in CandleOpts, q \in LiquidationOpts }

\* lines 936-942: the locals of runBacktest before its loop; pc = "off"
\* while it is not running
LedgerOff ==
    /\ i = 0
    /\ position = NoPosition
    /\ trades = <<>>
    /\ totalPnl = 0
    /\ wins = 0
    /\ losses = 0
    /\ maxDrawdown = 0
    /\ peak = 0
    /\ equity = 0
    /\ stats = NoStats
    /\ opened = <<>>
    /\ pc = "off"

\* runBacktest is not running and has no arguments
BacktestOff ==
    /\ signals = <<>>
    /\ candles = <<>>
    /\ LedgerOff

\* line 389: collectData has resolved
InitScore ==
    /\ BacktestOff
    /\ MainOff
    /\ IndOff
    /\ CollectOff
    /\ data \in Snapshots
    /\ scores = <<>>
    /\ total = 0
    /\ label = "none"
    /\ spc = "collected"

\* line 390
ScoreSignals ==
    /\ spc = "collected"
    /\ scores' = ScoresOf(data)
    /\ spc' = "scored"
    /\ UNCHANGED <<data, total, label>>
    /\ UNCHANGED <<btVars, mainVars, indVars, collectVars>>

\* lines 391-392
AggregateAndLabel ==
    /\ spc = "scored"
    /\ total' = Aggregate(scores)
    /\ label' = GetSignalLabel(total')
    /\ spc' = "done"
    /\ UNCHANGED <<data, scores>>
    /\ UNCHANGED <<btVars, mainVars, indVars, collectVars>>

NextScore == ScoreSignals \/ AggregateAndLabel

SpecScore == InitScore /\ [][NextScore]_vars


(***************************************************************************)
(* Properties of the scorer.                                               *)
(***************************************************************************)
\* the factors that received a score
Present == DOMAIN scores

\* C12: the aggregate of the scores scoreSignals returns lies in
\* [-100, 100] (here in hundredths), whichever fields of the snapshot are
\* present and whatever their values.
C12_AggregateInRange ==
    spc = "done" => total >= -100 * 100 /\ total <= 100 * 100

C12_Witness ==
    /\ spc = "done"
    /\ Cardinality(Present) >= 3
    /\ Cardinality(Present) < Len(Weights)
    /\ total = 30 * 100

\* the weight table of the specification
SpecWeight ==
    [funding |-> 15, fundingTrend |-> 10, longShort |-> 15, fearGreed |-> 15,
     rsi |-> 15, macd |-> 10, bollinger |-> 10, liquidation |-> 10]

RECURSIVE SumOver(_, _)
SumOver(S, f) ==
    IF S = {} THEN 0
    ELSE LET k == CHOOSE x \in S : TRUE
         IN f[k] + SumOver(S \ {k}, f)

\* sum of score * weight, and of weight, over the present factors
PresentScore == SumOver(Present, [k \in Present |-> scores[k] * SpecWeight[k]])
PresentWeight == SumOver(Present, [k \in Present |-> SpecWeight[k]])

\* t is x rounded to two decimals, x = num / den: t - 0.005 <= x < t + 0.005
\* with t in hundredths
IsRound2(t, num, den) ==
    /\ 2 * den * t - den <= 200 * num
    /\ 200 * num < 2 * den * t + den

\* C13: the aggregate is the sum of score * weight over the present factors
\* divided by the sum of their weights, rounded to two decimals, with the
\* weights funding 15, fundingTrend 10, longShort 15, fearGreed 15, rsi 15,
\* macd 10, bollinger 10, liquidation 10; it is 0 when no factor is present.
C13_WeightedAverage ==
    spc = "done" =>
       /\ Present \subseteq DOMAIN SpecWeight
       /\ IF Present = {} THEN total = 0
          ELSE IsRound2(total, PresentScore, PresentWeight)

C13_Witness ==
    /\ spc = "done"
    /\ {"macd", "funding"} \subseteq Present
    /\ scores.macd # scores.funding
    /\ "liquidation" \notin Present
    /\ (PresentScore * 100) % PresentWeight # 0

\* C14: a single present factor gives exactly its raw score (a funding rate
\* of -0.002 alone gives +30); two present factors of equal weight and equal
\* score s give s (fear-greed 5 and RSI 15 alone give 30.00).
C14_Renormalised ==
    spc = "done" =>
       /\ \A k \in Present : Present = {k} => total = scores[k] * 100
       /\ \A k, m \in Present :
             (/\ Present = {k, m}
              /\ SpecWeight[k] = SpecWeight[m]
              /\ scores[k] = scores[m]) => total = scores[k] * 100
       /\ (DOMAIN data = {"fundingRate"} /\ data.fundingRate = -20)
             => total = 30 * 100
       /\ (/\ DOMAIN data = {"fearGreed", "candles"}
           /\ data.fearGreed = 5
           /\ data.candles.len \in 15..19
           /\ data.candles.rsi = 15) => total = 30 * 100

C14_Witness ==
    /\ spc = "done"
    /\ DOMAIN data = {"fearGreed", "candles"}
    /\ data.fearGreed = 5
    /\ data.candles.rsi = 15
    /\ Present = {"fearGreed", "rsi"}
    /\ total = 30 * 100

\* C15: the funding factor is +30 below -0.001, +15 below -0.0003, 0 below
\* 0.0005, -15 below 0.001 and -30 from 0.001 on; a rate exactly on a
\* boundary falls in the next band (-0.001 gives +15, -0.0003 gives 0,
\* 0.0005 gives -15, 0.001 gives -30).
C15_FundingBands ==
    (spc # "collected" /\ "fundingRate" \in DOMAIN data) =>
       LET fr == data.fundingRate
       IN /\ "funding" \in Present
          /\ fr < -10 => scores.funding = 30
          /\ (fr >= -10 /\ fr < -3) => scores.funding = 15
          /\ (fr >= -3 /\ fr < 5) => scores.funding = 0
          /\ (fr >= 5 /\ fr < 10) => scores.funding = -15
          /\ fr >= 10 => scores.funding = -30

C15_Witness ==
    /\ spc = "scored"
    /\ "fundingRate" \in DOMAIN data
    /\ data.fundingRate = -10
    /\ scores.funding = 15

\* the snapshot fields a factor is computed from
InputsOf ==
    [funding |-> {"fundingRate"}, fundingTrend |-> {"fundingHistory"},
     longShort |-> {"longShortCurrent"}, fearGreed |-> {"fearGreed"},
     rsi |-> {"candles"}, macd |-> {"candles"}, bollinger |-> {"candles"},
     liquidation |-> {"liqLong", "liqShort"}]

\* C16: scoreSignals completes for every subset of absent snapshot fields,
\* and a factor has a score only when the data it is computed from was
\* present.
C16_AbsentFieldsSkipped ==
    /\ spc = "collected" => ENABLED ScoreSignals
    /\ spc # "collected" =>
          \A k \in Present : InputsOf[k] \subseteq DOMAIN data

C16_Witness ==
    /\ spc = "scored"
    /\ DOMAIN data = {"fearGreed", "liqLong", "longShortPrev"}
    /\ Present = {"fearGreed"}

\* what main prints for a snapshot: the score and its label
Report == <<total, label>>

\* what main prints for a genuinely neutral market
NeutralReport == <<0, GetSignalLabel(0)>>

\* C17: when no factor is available the scoring path reports an explicit
\* "no signal" outcome that differs from the report of a genuine neutral 0.
C17_NoSignalIsExplicit ==
    (spc = "done" /\ Present = {}) => Report # NeutralReport

\* a present factor set that genuinely scores 0
C17_GenuineNeutral ==
    /\ spc = "done"
    /\ Present # {}
    /\ Report = NeutralReport

\* the candle array handed to the indicators is malformed
Malformed(d) ==
    "candles" \in DOMAIN d /\ (~d.candles.ordered \/ ~d.candles.finite)

\* C18: a candle sequence that is not strictly ascending in time, or that
\* has a non-finite field, is rejected: no scores and no aggregate are
\* produced for it.
C18_MalformedRejected ==
    Malformed(data) => (spc = "collected" /\ scores = <<>>)


(***************************************************************************)
(* backtest.js: generateSignals (lines 861-931) and main (lines 1066-1111).*)
(*                                                                         *)
(* The candle array is a function from the 0-based index to [ts, o, c].    *)
(* calcRSI, calcMACDSeries and calcBollingerSeries are not recomputed from *)
(* the closes: the series they return have the shape the code gives them   *)
(* (length, leading nulls) and values drawn from patterns that reach every *)
(* branch of the scoring.  %B is in hundredths.                            *)
(***************************************************************************)
\* the JavaScript value null
Null == 0 - 1000003

Max(a, b) == IF a >= b THEN a ELSE b
Min(a, b) == IF a <= b THEN a ELSE b

\* candles.length
NumCandles(c) == Cardinality(DOMAIN c)

\* lines 803-816: an entry of rsiSeries from index 15 on
RsiAt(p, j) ==
    CASE p = "low" -> 15
      [] p = "high" -> 90
      [] p = "mid" -> 50
      [] OTHER -> IF j % 2 = 0 THEN 25 ELSE 75

\* lines 835-839: an entry of macdSeries
MacdAt(p, j) ==
    CASE p = "bull" -> [macd |-> 5, signal |-> 3, hist |-> 2]
      [] p = "bear" -> [macd |-> -5, signal |-> -3, hist |-> -2]
      [] p = "touch" -> <<[macd |-> -5, signal |-> -3, hist |-> -2],
                          [macd |-> 2, signal |-> 2, hist |-> 0],
                          [macd |-> 5, signal |-> 3, hist |-> 2],
                          [macd |-> -2, signal |-> -2, hist |-> 0]>>[(j % 4) + 1]
      [] OTHER -> IF j % 2 = 0
                  THEN [macd |-> 5, signal |-> 3, hist |-> 2]
                  ELSE [macd |-> 5, signal |-> 7, hist |-> -2]

\* line 853: percentB of an entry of bbSeries
PercentBAt(p, j) ==
    CASE p = "below" -> -10
      [] p = "above" -> 110
      [] p = "near" -> IF j % 2 = 0 THEN 10 ELSE 90
      [] OTHER -> IF j % 2 = 0 THEN 15 ELSE 50

\* lines 789-819: null below 15 closes, else 15 nulls followed by one entry
\* per close from index 14 on (closes.length + 1 entries)
RsiSeriesOf(n, p) ==
    IF n < 15 THEN Null
    ELSE [j \in 0..n |-> IF j < 15 THEN Null ELSE RsiAt(p, j)]

\* lines 821-840: calcEMASeries starts from values[0], so the series of no
\* closes has one entry, of NaN
MacdSeriesOf(n, p) ==
    [j \in 0..(Max(n, 1) - 1) |->
       IF n = 0 THEN [macd |-> NaN, signal |-> NaN, hist |-> NaN]
       ELSE MacdAt(p, j)]

\* lines 842-857: null for the first 19 indices
BbSeriesOf(n, p) ==
    [j \in 0..(n - 1) |-> IF j < 19 THEN Null ELSE PercentBAt(p, j)]

SeriesOf(n, rp, mp, bp) ==
    [rsi |-> RsiSeriesOf(n, rp), macd |-> MacdSeriesOf(n, mp),
     bb |-> BbSeriesOf(n, bp)]

\* lines 874-882
SigRsi(rsi) ==
    IF rsi = Null THEN 0
    ELSE IF Lt(rsi, 20) THEN 30
    ELSE IF Lt(rsi, 30) THEN 15
    ELSE IF Lt(rsi, 45) THEN 5
    ELSE IF Gt(rsi, 80) THEN -30
    ELSE IF Gt(rsi, 70) THEN -15
    ELSE IF Gt(rsi, 55) THEN -5
    ELSE 0

\* lines 885-889
SigMacd(m) ==
    IF Gt(m.hist, 0) /\ Gt(m.macd, 0) THEN 15
    ELSE IF Gt(m.hist, 0) THEN 10
    ELSE IF Lt(m.hist, 0) /\ Lt(m.macd, 0) THEN -15
    ELSE IF Lt(m.hist, 0) THEN -10
    ELSE 0

\* line 894: the golden cross
GoldenCross_Strict(prev, m) == Lt(prev.hist, 0) /\ Gt(m.hist, 0)
GoldenCross(prev, m) == Le(prev.hist, 0) /\ Gt(m.hist, 0)

\* line 895: the death cross
DeathCross(prev, m) == Ge(prev.hist, 0) /\ Lt(m.hist, 0)

\* lines 892-896
SigCross(prev, m) ==
    (IF GoldenCross(prev, m) THEN 10 ELSE 0)
      + (IF DeathCross(prev, m) THEN -10 ELSE 0)

\* lines 876-880, 894-895, 901-904: the reasons pushed at bar idx, as tags
ReasonsAt(sr, idx) ==
    LET rsi == sr.rsi[idx]
        pctB == sr.bb[idx]
    IN (IF rsi # Null /\ Lt(rsi, 20) THEN {"rsi_extreme_oversold"} ELSE {})
       \cup (IF rsi # Null /\ ~Lt(rsi, 20) /\ Lt(rsi, 30)
             THEN {"rsi_oversold"} ELSE {})
       \cup (IF rsi # Null /\ ~Lt(rsi, 45) /\ Gt(rsi, 80)
             THEN {"rsi_extreme_overbought"} ELSE {})
       \cup (IF rsi # Null /\ ~Lt(rsi, 45) /\ ~Gt(rsi, 80) /\ Gt(rsi, 70)
             THEN {"rsi_overbought"} ELSE {})
       \cup (IF idx > 0 /\ GoldenCross(sr.macd[idx - 1], sr.macd[idx])
             THEN {"golden_cross"} ELSE {})
       \cup (IF idx > 0 /\ DeathCross(sr.macd[idx - 1], sr.macd[idx])
             THEN {"death_cross"} ELSE {})
       \cup (IF pctB # Null /\ Lt(pctB, 0) THEN {"below_lower_band"} ELSE {})
       \cup (IF pctB # Null /\ ~Lt(pctB, 0) /\ Lt(pctB, 15)
             THEN {"near_lower_band"} ELSE {})
       \cup (IF pctB # Null /\ ~Lt(pctB, 15) /\ Gt(pctB, 100)
             THEN {"above_upper_band"} ELSE {})
       \cup (IF pctB # Null /\ ~Lt(pctB, 15) /\ ~Gt(pctB, 100) /\ Gt(pctB, 85)
             THEN {"near_upper_band"} ELSE {})

\* lines 899-905
SigBollinger(pctB) ==
    IF pctB = Null THEN 0
    ELSE IF Lt(pctB, 0) THEN 20
    ELSE IF Lt(pctB, 15) THEN 10
    ELSE IF Gt(pctB, 100) THEN -20
    ELSE IF Gt(pctB, 85) THEN -10
    ELSE 0

\* closes.slice(a, b + 1).reduce((a, b) => a + b)
RECURSIVE SumCloses(_, _, _)
SumCloses(c, a, b) == IF a > b THEN 0 ELSE c[b].c + SumCloses(c, a, b - 1)

\* lines 908-913; the two means are compared by cross-multiplication
SigTrend(c, idx) ==
    IF idx >= 50
    THEN LET s20 == SumCloses(c, idx - 19, idx)
             s50 == SumCloses(c, idx - 49, idx)
         IN IF 20 * c[idx].c > s20 /\ 50 * s20 > 20 * s50 THEN 10
            ELSE IF 20 * c[idx].c < s20 /\ 50 * s20 < 20 * s50 THEN -10
            ELSE 0
    ELSE 0

\* lines 870-913: score before normalisation
RawScore(c, sr, idx) ==
    SigRsi(sr.rsi[idx]) + SigMacd(sr.macd[idx])
      + (IF idx > 0 THEN SigCross(sr.macd[idx - 1], sr.macd[idx]) ELSE 0)
      + SigBollinger(sr.bb[idx]) + SigTrend(c, idx)

\* line 916
Normalized_Unclamped(score) == score * 2
Normalized(score) == Max(-100, Min(100, score * 2))

\* lines 918-927: the fields of a signal that are read afterwards
SignalAt(c, sr, idx) ==
    [idx |-> idx, ts |-> c[idx].ts, price |-> c[idx].c,
     score |-> Normalized(RawScore(c, sr, idx)),
     reasons |-> ReasonsAt(sr, idx)]

\* lines 861-931
GenerateSignals(c, sr) ==
    [k \in 1..Max(NumCandles(c) - WarmUp, 0) |-> SignalAt(c, sr, WarmUp + k - 1)]

\* the price levels of the candle inputs
Lo == CHOOSE p \in Prices : \A q \in Prices : p <= q
Hi == CHOOSE p \in Prices : \A q \in Prices : p >= q
Md == CHOOSE p \in Prices : p # Lo /\ p # Hi

\* level of candle j on a path that moves from a to b
Ramp(a, b, j) == IF j < 40 THEN a ELSE IF j < 50 THEN Md ELSE b

\* open and close of candle j
PriceAt(p, j) ==
    CASE p = "flat" -> [o |-> Md, c |-> Md]
      [] p = "rise" -> [o |-> Ramp(Lo, Hi, j), c |-> Ramp(Lo, Hi, j)]
      [] p = "fall" -> [o |-> Ramp(Hi, Lo, j), c |-> Ramp(Hi, Lo, j)]
      [] OTHER -> [o |-> <<Md, Hi, Lo>>[(j % 3) + 1],
                   c |-> <<Md, Hi, Lo>>[((j + 1) % 3) + 1]]

\* fetchCandles: n candles in ascending time order, one bar apart
CandleArray(n, p, t0) ==
    [j \in 0..(n - 1) |->
       [ts |-> t0 + 4 * j, o |-> PriceAt(p, j).o, c |-> PriceAt(p, j).c]]

PricePatterns == {"flat", "rise", "fall", "cycle"}
StartTimes == {1000, 2000}
RsiPatterns == {"low", "high", "mid", "swing"}
MacdPatterns == {"bull", "bear", "touch", "cross"}
BbPatterns == {"below", "above", "near", "inside"}

\* the candle arrays of the lengths in L, each with its indicator series
InputsOfLength(L) ==
    { [candles |-> CandleArray(n, p, t0), series |-> SeriesOf(n, rp, mp, bp)] :
        n \in L, p \in PricePatterns, t0 \in StartTimes,
        rp \in RsiPatterns, mp \in MacdPatterns, bp \in BbPatterns }

\* lengths around the loop start of line 869
GenLengths == {0, 1, 15, WarmUp - 1} \cup (WarmUp..(WarmUp + MaxExtraCandles))

\* line 1083
MinCandles == 50

\* lengths around the minimum of line 1083
MainLengths ==
    {0, WarmUp, MinCandles - 1} \cup (MinCandles..(MinCandles + MaxExtraCandles))

\* generateSignals(candles) is called
InitGen ==
    /\ \E in \in InputsOfLength(GenLengths) :
          candles = in.candles /\ series = in.series
    /\ signals = <<>>
    /\ LedgerOff
    /\ ScoreOff
    /\ IndOff
    /\ CollectOff
    /\ mpc = "off"
    /\ gpc = "called"

\* lines 861-931
GenerateSignalsCall ==
    /\ gpc = "called"
    /\ signals' = GenerateSignals(candles, series)
    /\ gpc' = "returned"
    /\ UNCHANGED <<candles, i, position, trades, totalPnl, wins, losses,
                   maxDrawdown, peak, equity, stats, opened, pc>>
    /\ UNCHANGED <<scoreVars, series, mpc, indVars, collectVars>>

NextGen == GenerateSignalsCall

SpecGen == InitGen /\ [][NextGen]_vars

\* line 1080: fetchCandles has resolved
InitMain ==
    /\ \E in \in InputsOfLength(MainLengths) :
          candles = in.candles /\ series = in.series
    /\ signals = <<>>
    /\ LedgerOff
    /\ ScoreOff
    /\ IndOff
    /\ CollectOff
    /\ mpc = "fetched"
    /\ gpc = "off"

\* line 1083
TooFew_Inclusive(c) == NumCandles(c) <= MinCandles
TooFew(c) == NumCandles(c) < MinCandles

\* lines 1083-1086: report the shortage and return
MainRefuse ==
    /\ mpc = "fetched"
    /\ TooFew(candles)
    /\ mpc' = "insufficient"
    /\ UNCHANGED <<btVars, scoreVars, series, gpc, indVars, collectVars>>

\* lines 1088-1099
MainGenerate ==
    /\ mpc = "fetched"
    /\ ~TooFew(candles)
    /\ signals' = GenerateSignals(candles, series)
    /\ mpc' = "generated"
    /\ UNCHANGED <<candles, i, position, trades, totalPnl, wins, losses,
                   maxDrawdown, peak, equity, stats, opened, pc>>
    /\ UNCHANGED <<scoreVars, series, gpc, indVars, collectVars>>

\* line 1111 and lines 935-942: runBacktest(signals, candles) starts
MainRunBacktest ==
    /\ mpc = "generated"
    /\ LedgerOff
    /\ pc' = "loop"
    /\ mpc' = "backtest"
    /\ UNCHANGED <<signals, candles, i, position, trades, totalPnl, wins,
                   losses, maxDrawdown, peak, equity, stats, opened>>
    /\ UNCHANGED <<scoreVars, series, gpc, indVars, collectVars>>

NextMain == MainRefuse \/ MainGenerate \/ MainRunBacktest \/ Bar \/ Finish

SpecMain == InitMain /\ [][NextMain]_vars

(***************************************************************************)
(* Properties of main and generateSignals.                                 *)
(***************************************************************************)
\* C19: main of the backtest refuses to run on fewer than 50 candles: it
\* reports the shortage and produces no signals, no trades and no stats;
\* with 50 candles or more it goes on to the signals and the backtest.
C19_MinimumCandles ==
    LET n == NumCandles(candles)
    IN /\ (mpc = "fetched" /\ n < 50) => ((ENABLED MainRefuse) /\ ~(ENABLED MainGenerate))
       /\ (mpc = "fetched" /\ n >= 50) => ((ENABLED MainGenerate) /\ ~(ENABLED MainRefuse))
       /\ mpc = "insufficient" => n < 50
       /\ (mpc # "off" /\ n < 50) =>
             /\ mpc \in {"fetched", "insufficient"}
             /\ signals = <<>>
             /\ trades = <<>>
             /\ stats = NoStats
             /\ pc = "off"
       /\ (mpc = "backtest" /\ pc = "done") =>
             /\ n >= 50
             /\ Len(signals) = n - 30
             /\ stats # NoStats

C19_Witness ==
    /\ mpc = "insufficient"
    /\ NumCandles(candles) = 49
    /\ signals = <<>>
    /\ stats = NoStats

\* C20: generateSignals returns one signal per candle index i with
\* 30 <= i < candles.length, in ascending order: the k-th signal (from 0)
\* has idx 30 + k and the ts and close of candle 30 + k; for 30 candles or
\* fewer it returns the empty sequence.
C20_OneSignalPerCandle ==
    gpc = "returned" =>
       LET n == NumCandles(candles)
       IN /\ Len(signals) = IF n <= 30 THEN 0 ELSE n - 30
          /\ \A k \in 0..(Len(signals) - 1) :
                /\ signals[k + 1].idx = 30 + k
                /\ signals[k + 1].ts = candles[30 + k].ts
                /\ signals[k + 1].price = candles[30 + k].c

C20_Witness ==
    /\ gpc = "returned"
    /\ NumCandles(candles) = 33
    /\ Len(signals) = 3
    /\ signals[3].idx = 32
    /\ signals[3].ts = candles[32].ts
    /\ signals[1].price # signals[2].price

\* the contributions of the claim at bar idx, from the series and the closes
RawAt(idx) ==
    SigRsi(series.rsi[idx]) + SigMacd(series.macd[idx])
      + SigCross(series.macd[idx - 1], series.macd[idx])
      + SigBollinger(series.bb[idx]) + SigTrend(candles, idx)

\* C21: every score of generateSignals is max(-100, min(100, 2 * raw)) with
\* raw the sum of the RSI, MACD, crossover, Bollinger and moving-average
\* contributions at that bar, and so lies in [-100, 100].
C21_DoubledAndClamped ==
    gpc = "returned" =>
       \A k \in 1..Len(signals) :
          LET twice == 2 * RawAt(signals[k].idx)
          IN /\ signals[k].score =
                   IF twice > 100 THEN 100 ELSE IF twice < -100 THEN -100 ELSE twice
             /\ signals[k].score >= -100
             /\ signals[k].score <= 100

C21_Witness ==
    /\ gpc = "returned"
    /\ \E k \in 1..Len(signals) :
          RawAt(signals[k].idx) > 50 /\ signals[k].score = 100
    /\ \E k \in 1..Len(signals) :
          RawAt(signals[k].idx) < 50 /\ signals[k].score = 2 * RawAt(signals[k].idx)

\* the histogram of macdSeries at bar idx
HistAt(idx) == series.macd[idx].hist

\* the score of signal k without the crossover bonus, before doubling
RawWithoutCross(k) ==
    LET idx == signals[k].idx
    IN SigRsi(series.rsi[idx]) + SigMacd(series.macd[idx])
         + SigBollinger(series.bb[idx]) + SigTrend(candles, idx)

\* C26: the crossover bonus at bar i is +10 exactly when the histogram is
\* <= 0 at bar i - 1 and > 0 at bar i, -10 exactly when it is >= 0 at bar
\* i - 1 and < 0 at bar i, and 0 otherwise; the two are never applied at the
\* same bar.
C26_CrossoverBonus ==
    gpc = "returned" =>
       \A k \in 1..Len(signals) :
          LET idx == signals[k].idx
              up == HistAt(idx - 1) <= 0 /\ HistAt(idx) > 0
              down == HistAt(idx - 1) >= 0 /\ HistAt(idx) < 0
              bonus == IF up THEN 10 ELSE IF down THEN -10 ELSE 0
              twice == 2 * (RawWithoutCross(k) + bonus)
          IN /\ ("golden_cross" \in signals[k].reasons) <=> up
             /\ ("death_cross" \in signals[k].reasons) <=> down
             /\ ~({"golden_cross", "death_cross"} \subseteq signals[k].reasons)
             /\ signals[k].score =
                   IF twice > 100 THEN 100 ELSE IF twice < -100 THEN -100 ELSE twice

C26_Witness ==
    /\ gpc = "returned"
    /\ \E k \in 1..Len(signals) :
          /\ HistAt(signals[k].idx - 1) = 0
          /\ HistAt(signals[k].idx) > 0
          /\ "golden_cross" \in signals[k].reasons
    /\ \E k \in 1..Len(signals) :
          /\ HistAt(signals[k].idx - 1) = 0
          /\ HistAt(signals[k].idx) < 0
          /\ "death_cross" \in signals[k].reasons

\* the base band score of the long/short ratio ls, in hundredths
BandOf(ls) ==
    IF ls > 350 THEN -25
    ELSE IF ls > 280 THEN -10
    ELSE IF ls < 120 THEN 25
    ELSE IF ls < 180 THEN 10
    ELSE 0

\* the ratio moved against the prior ratio by more than 0.3
Rose == "longShortPrev" \in DOMAIN data
           /\ data.longShortCurrent - data.longShortPrev > 30
Fell == "longShortPrev" \in DOMAIN data
           /\ data.longShortPrev - data.longShortCurrent > 30

\* C27: every factor score of scoreSignals lies in [-30, +30]; the
\* long/short factor is its base band score in {-25, -10, 0, +10, +25} plus
\* -5 when the ratio rose by more than 0.3 against the prior ratio, or +5
\* when it fell by more than 0.3, and stays in [-30, +30].
C27_FactorRange ==
    spc # "collected" =>
       /\ \A k \in Present : scores[k] >= -30 /\ scores[k] <= 30
       /\ "longShort" \in Present =>
             /\ BandOf(data.longShortCurrent) \in {-25, -10, 0, 10, 25}
             /\ scores.longShort =
                   BandOf(data.longShortCurrent)
                     + (IF Rose THEN -5 ELSE IF Fell THEN 5 ELSE 0)

C27_Witness ==
    /\ spc = "scored"
    /\ "longShort" \in Present
    /\ Rose
    /\ scores.longShort = -30

(***************************************************************************)
(* runBacktest on fills at the edge of the thresholds: an entry price that *)
(* divides Scale and next opens within half a hundredth of a percent of    *)
(* -3% and +6%, where toFixed(2) rounds the pnl onto the threshold.        *)
(***************************************************************************)
\* from 25705: 24934 is -2.9994%, 24933 is -3.0033%, 27247 is +5.9988%,
\* 27248 is +6.0027%; for a short, 26476 is -2.9994% and 24163 is +5.9988%
EdgeEntries == {25705}
EdgeExits == {24163, 24933, 24934, 25705, 26476, 27247, 27248}
EdgeScores == Scores \cup {0}

\* three signals and the candles 30..32: the first fill is at the open of
\* candle 31, the second at the open of candle 32, which is also the last
\* close
EdgeSignals ==
    { [k \in 1..3 |-> [idx |-> WarmUp + k - 1,
                       score |-> IF k = 3 THEN 0 ELSE sc[k]]] :
        sc \in [1..2 -> EdgeScores] }

EdgeCandles ==
    { [j \in WarmUp..(WarmUp + 2) |->
         [o |-> IF j = WarmUp + 1 THEN e ELSE x,
          c |-> x]] : e \in EdgeEntries, x \in EdgeExits }

InitEdge ==
    /\ signals \in EdgeSignals
    /\ candles \in EdgeCandles
    /\ i = 0
    /\ position = NoPosition
    /\ trades = <<>>
    /\ totalPnl = 0
    /\ wins = 0
    /\ losses = 0
    /\ maxDrawdown = 0
    /\ peak = 0
    /\ equity = 0
    /\ stats = NoStats
    /\ opened = <<>>
    /\ pc = "loop"
    /\ ScoreOff
    /\ MainOff
    /\ IndOff
    /\ CollectOff

SpecEdge == InitEdge /\ [][Next]_vars

\* C29: the ledger of runBacktest is chronological and non-overlapping: a
\* later trade is entered at or after the candle at which the earlier one
\* exited, and an end_of_data trade occurs at most once, as the last trade.
C29_LedgerChronological ==
    /\ \A k \in 1..Len(trades) : trades[k].entryIdx <= trades[k].exitIdx
    /\ \A k \in 1..(Len(trades) - 1) :
          /\ trades[k + 1].entryIdx >= trades[k].exitIdx
          /\ trades[k].reason # "end_of_data"
    /\ Cardinality({ k \in 1..Len(trades) : trades[k].reason = "end_of_data" }) <= 1

C29_Witness ==
    /\ pc = "done"
    /\ Len(trades) >= 2
    /\ trades[1].reason = "signal_reversal"
    /\ trades[2].entryIdx = trades[1].exitIdx
    /\ LastTrade.reason = "end_of_data"

\* the pnl of trade t is below / above th percent, from its prices
PnlBelow(t, th) ==
    (IF t.side = "long" THEN t.exit - t.entry ELSE t.entry - t.exit) * 100
       < th * t.entry
PnlAbove(t, th) ==
    (IF t.side = "long" THEN t.exit - t.entry ELSE t.entry - t.exit) * 100
       > th * t.entry

\* the exit of t was decided on a reversing score
ReversingScore(t) ==
    \/ t.side = "long" /\ ExitSignal(t).score < -5
    \/ t.side = "short" /\ ExitSignal(t).score > 5

\* C28 as stated, on the pnl recorded in the ledger (hundredths of a
\* percent): stop_loss <= -3%, take_profit >= +6%, signal_reversal strictly
\* between the two and closed on a reversing score.
C28_Original ==
    \A k \in 1..Len(trades) :
        /\ trades[k].reason = "stop_loss" => trades[k].pnl <= -300
        /\ trades[k].reason = "take_profit" => trades[k].pnl >= 600
        /\ trades[k].reason = "signal_reversal" =>
              /\ trades[k].pnl > -300 /\ trades[k].pnl < 600
              /\ ReversingScore(trades[k])

\* C28 amended: a stop_loss trade has pnl <= -3% and a take_profit trade
\* pnl >= +6%; a signal_reversal trade was closed on a score < -5 (long) or
\* > +5 (short) with an unrounded pnl strictly between -3% and +6%, and the
\* pnl recorded in the ledger, rounded to two decimals, lies within
\* [-3.00%, +6.00%], bounds included.
C28_ReasonMatchesPnl ==
    \A k \in 1..Len(trades) :
        /\ trades[k].reason = "stop_loss" =>
              ~PnlAbove(trades[k], -3) /\ trades[k].pnl <= -300
        /\ trades[k].reason = "take_profit" =>
              ~PnlBelow(trades[k], 6) /\ trades[k].pnl >= 600
        /\ trades[k].reason = "signal_reversal" =>
              /\ PnlAbove(trades[k], -3) /\ PnlBelow(trades[k], 6)
              /\ trades[k].pnl >= -300 /\ trades[k].pnl <= 600
              /\ ReversingScore(trades[k])

\* a reversal of a long at -2.9994%, recorded as -3.00%
C28_Witness ==
    \E k \in 1..Len(trades) :
        /\ trades[k].reason = "signal_reversal"
        /\ trades[k].side = "long"
        /\ PnlAbove(trades[k], -3)
        /\ trades[k].pnl = -300


(***************************************************************************)
(* The indicator functions, computed exactly.                              *)
(*                                                                         *)
(* A JavaScript number of the indicators is held as a fraction in lowest   *)
(* terms, [n |-> numerator, d |-> denominator] with d > 0, so that the     *)
(* tests of the code (=== 0, > 0, the RSI bands) are decided on the exact  *)
(* value.  The inputs below keep every intermediate value within 32 bits.  *)
(***************************************************************************)
Rat(n, d) ==
    LET g == Gcd(Abs(n), Abs(d))
        s == IF d < 0 THEN -1 ELSE 1
    IN [n |-> (s * n) \div g, d |-> Abs(d) \div g]

RInt(k) == [n |-> k, d |-> 1]

RAdd(a, b) ==
    LET l == Lcm(a.d, b.d)
    IN Rat(a.n * (l \div a.d) + b.n * (l \div b.d), l)

RSub(a, b) == RAdd(a, [n |-> -b.n, d |-> b.d])

RMul(a, b) ==
    LET g1 == Gcd(Abs(a.n), b.d)
        g2 == Gcd(Abs(b.n), a.d)
    IN Rat((a.n \div g1) * (b.n \div g2), (a.d \div g2) * (b.d \div g1))

\* a / b for b # 0
RDiv(a, b) == RMul(a, Rat(b.d, b.n))

RLe(a, b) == a.n * b.d <= b.n * a.d

\* null, as an entry of a series of fractions
NullR == [n |-> 0, d |-> 0]

Period == 14                \* the default of the parameter, lines 116 and 789

\* signal.js, lines 118-121: changes[k] of the code is ch[k + 1]
Changes(cl) == [k \in 1..(Len(cl) - 1) |-> cl[k + 1] - cl[k]]

\* signal.js, lines 123-127: avgGain and avgLoss after the first k changes
RECURSIVE FirstSums(_, _)
FirstSums(cl, k) ==
    IF k = 0 THEN [gain |-> 0, loss |-> 0]
    ELSE LET p == FirstSums(cl, k - 1)
             change == Changes(cl)[k]
         IN IF change > 0
            THEN [gain |-> p.gain + change, loss |-> p.loss]
            ELSE [gain |-> p.gain, loss |-> p.loss - change]

\* signal.js, lines 132-138: one iteration of the smoothing loop
Wilder(p, change) ==
    LET keptGain == RMul(p.gain, RInt(Period - 1))
        keptLoss == RMul(p.loss, RInt(Period - 1))
    IN IF change > 0
       THEN [gain |-> RDiv(RAdd(keptGain, RInt(change)), RInt(Period)),
             loss |-> RDiv(keptLoss, RInt(Period))]
       ELSE [gain |-> RDiv(keptGain, RInt(Period)),
             loss |-> RDiv(RSub(keptLoss, RInt(change)), RInt(Period))]

\* signal.js, lines 128-139: the values avgGain and avgLoss take, in order:
\* element 1 after lines 128-129, element e + 1 after e iterations of the
\* loop of line 131; k >= Period is the number of changes consumed
RECURSIVE Smoothed(_, _)
Smoothed(cl, k) ==
    IF k = Period
    THEN LET f == FirstSums(cl, Period)
         IN <<[gain |-> Rat(f.gain, Period), loss |-> Rat(f.loss, Period)]>>
    ELSE LET prev == Smoothed(cl, k - 1)
         IN Append(prev, Wilder(prev[Len(prev)], Changes(cl)[k]))

\* signal.js, lines 141-143
RsiValue_Neutral(a) ==
    IF a.loss = RInt(0) THEN RInt(50)
    ELSE RSub(RInt(100),
              RDiv(RInt(100), RAdd(RInt(1), RDiv(a.gain, a.loss))))
RsiValue(a) ==
    IF a.loss = RInt(0) THEN RInt(100)
    ELSE RSub(RInt(100),
              RDiv(RInt(100), RAdd(RInt(1), RDiv(a.gain, a.loss))))

\* signal.js, calcRSI (lines 116-144) of candles whose closes are cl
CalcRSIExact(cl) ==
    IF Len(cl) < Period + 1 THEN RInt(50)
    ELSE LET avgs == Smoothed(cl, Len(cl) - 1)
         IN RsiValue(avgs[Len(avgs)])

\* backtest.js, lines 791-796: avgGain and avgLoss after the iterations
\* i = 1..k of the first loop; closes[i] of the code is cl[i + 1]
RECURSIVE SeriesSums(_, _)
SeriesSums(cl, k) ==
    IF k = 0 THEN [gain |-> 0, loss |-> 0]
    ELSE LET p == SeriesSums(cl, k - 1)
             change == cl[k + 1] - cl[k]
         IN IF change > 0
            THEN [gain |-> p.gain + change, loss |-> p.loss]
            ELSE [gain |-> p.gain, loss |-> p.loss - change]

\* backtest.js, lines 808-814: the update of one iteration
SeriesWilder(p, change) ==
    LET keptGain == RMul(p.gain, RInt(Period - 1))
        keptLoss == RMul(p.loss, RInt(Period - 1))
    IN IF change > 0
       THEN [gain |-> RDiv(RAdd(keptGain, RInt(change)), RInt(Period)),
             loss |-> RDiv(keptLoss, RInt(Period))]
       ELSE [gain |-> RDiv(keptGain, RInt(Period)),
             loss |-> RDiv(RSub(keptLoss, RInt(change)), RInt(Period))]

\* backtest.js, lines 803-804 and 815-816: the value pushed
SeriesValue(a) ==
    IF a.loss = RInt(0) THEN RInt(100)
    ELSE RSub(RInt(100),
              RDiv(RInt(100), RAdd(RInt(1), RDiv(a.gain, a.loss))))

\* backtest.js, lines 797-798 and 806-814: the values avgGain and avgLoss
\* take, in order: element 1 after lines 797-798, then one element per
\* iteration i = Period + 1 .. k of the loop of line 806
RECURSIVE SeriesSmoothed(_, _)
SeriesSmoothed(cl, k) ==
    IF k = Period
    THEN LET f == SeriesSums(cl, Period)
         IN <<[gain |-> Rat(f.gain, Period), loss |-> Rat(f.loss, Period)]>>
    ELSE LET prev == SeriesSmoothed(cl, k - 1)
         IN Append(prev, SeriesWilder(prev[Len(prev)], cl[k + 1] - cl[k]))

\* backtest.js, calcRSI (lines 789-819).  Entry e of the returned array is
\* element e + 1 of the sequence; the null returned for fewer than
\* Period + 1 closes is the empty sequence.  Line 801 pushes Period + 1
\* nulls (entries 0..Period), line 803/804 pushes entry Period + 1 from the
\* first averages, and iteration i of the loop of line 806 pushes entry
\* i + 1: the array has one entry more than there are closes.
CalcRSISeries(cl) ==
    IF Len(cl) < Period + 1 THEN <<>>
    ELSE LET avgs == SeriesSmoothed(cl, Len(cl) - 1)
         IN [j \in 1..(Len(cl) + 1) |->
                IF j <= Period + 1 THEN NullR
                ELSE SeriesValue(avgs[j - (Period + 1)])]

\* ---- the close series the indicator functions are applied to ----
MaxTail == 2

Deltas == {-3, 0, 3}

BaseLengths == {1, 14, 15, 16, 30, 31}

\* a base of m closes from 100 with a constant step
Base(step, m) == [k \in 1..m |-> 100 + step * (k - 1)]

\* the closes cl followed by the closes the changes in t lead to
RECURSIVE Extend(_, _)
Extend(cl, t) ==
    IF t = <<>> THEN cl
    ELSE Extend(Append(cl, cl[Len(cl)] + Head(t)), Tail(t))

\* the sequences of k changes
RECURSIVE TailsOf(_)
TailsOf(k) ==
    IF k = 0 THEN {<<>>}
    ELSE {Append(t, d) : t \in TailsOf(k - 1), d \in Deltas}

Tails == UNION {TailsOf(k) : k \in 0..MaxTail}

CloseSeries ==
    {<<>>} \cup {Extend(Base(step, m), t) :
                    step \in {-1, 0, 1}, m \in BaseLengths, t \in Tails}

InitRsi ==
    /\ closes \in CloseSeries
    /\ rsiLive = <<>>
    /\ rsiSeries = <<>>
    /\ macdLive = <<>>
    /\ done = {}
    /\ BacktestOff
    /\ ScoreOff
    /\ MainOff
    /\ CollectOff

\* signal.js: calcRSI(candles) returns
CalcRSILive ==
    /\ "calcRSI" \notin done
    /\ rsiLive' = CalcRSIExact(closes)
    /\ done' = done \cup {"calcRSI"}
    /\ UNCHANGED <<closes, rsiSeries, macdLive>>
    /\ UNCHANGED <<btVars, scoreVars, mainVars, collectVars>>

\* backtest.js: calcRSI(closes) returns
CalcRSIBacktest ==
    /\ "rsiSeries" \notin done
    /\ rsiSeries' = CalcRSISeries(closes)
    /\ done' = done \cup {"rsiSeries"}
    /\ UNCHANGED <<closes, rsiLive, macdLive>>
    /\ UNCHANGED <<btVars, scoreVars, mainVars, collectVars>>

NextRsi == CalcRSILive \/ CalcRSIBacktest

SpecRsi == InitRsi /\ [][NextRsi]_vars

StrictlyRising(cl) == \A k \in 1..(Len(cl) - 1) : cl[k + 1] > cl[k]

StrictlyFalling(cl) == \A k \in 1..(Len(cl) - 1) : cl[k + 1] < cl[k]

InRange(r) == RLe(RInt(0), r) /\ RLe(r, RInt(100))

\* the entries of the series that hold a value
Valued(sr) == {j \in 1..Len(sr) : sr[j] # NullR}

\* C23: for a strictly rising series of at least 15 closes calcRSI returns
\* 100 and for a strictly falling one 0, and every result lies in [0, 100];
\* this holds of the value signal.js returns and of every value in the
\* series backtest.js returns
C23_RsiExtremes ==
    /\ "calcRSI" \in done =>
        /\ InRange(rsiLive)
        /\ Len(closes) >= Period + 1 /\ StrictlyRising(closes)
               => rsiLive = RInt(100)
        /\ Len(closes) >= Period + 1 /\ StrictlyFalling(closes)
               => rsiLive = RInt(0)
    /\ "rsiSeries" \in done =>
        \A j \in Valued(rsiSeries) :
            /\ InRange(rsiSeries[j])
            /\ StrictlyRising(closes) => rsiSeries[j] = RInt(100)
            /\ StrictlyFalling(closes) => rsiSeries[j] = RInt(0)

\* a rising series with uneven steps has been given to both functions, and
\* the value for it is 100
C23_Witness ==
    /\ done = {"calcRSI", "rsiSeries"}
    /\ Len(closes) = 17
    /\ StrictlyRising(closes)
    /\ closes[17] - closes[16] = 3
    /\ rsiLive = RInt(100)
    /\ rsiSeries[17] = RInt(100)


Flat(cl) == \A k \in 1..(Len(cl) - 1) : cl[k + 1] = cl[k]

\* C24: for a constant close series of any length calcRSI returns 50, and
\* the RSI factor of scoreSignals (scored from 15 candles on) is 0
C24_FlatIsNeutral ==
    "calcRSI" \in done /\ Flat(closes) =>
        /\ rsiLive = RInt(50)
        /\ Len(closes) >= 15 => RsiScore(rsiLive.n) = 0

\* C22: for every bar >= 30 the entry of that bar in the series that
\* backtest.js computes is the value signal.js calcRSI returns for the closes
\* up to and including that bar, and the series has one entry per close
C22_SeriesMatchesPrefix ==
    "rsiSeries" \in done /\ Len(closes) >= Period + 1 =>
        /\ Len(rsiSeries) = Len(closes)
        /\ \A bar \in 30..(Len(closes) - 1) :
               rsiSeries[bar + 1] = CalcRSIExact(SubSeq(closes, 1, bar + 1))


\* what the series holds instead: one entry more than there are closes, and
\* at every bar from Period + 1 on the value for the closes before that bar
SeriesLagsByOne ==
    "rsiSeries" \in done /\ Len(closes) >= Period + 1 =>
        /\ Len(rsiSeries) = Len(closes) + 1
        /\ \A bar \in (Period + 1)..Len(closes) :
               rsiSeries[bar + 1] = CalcRSIExact(SubSeq(closes, 1, bar))


(***************************************************************************)
(* signal.js, calcMACD (lines 155-181), computed exactly.                  *)
(***************************************************************************)
K12 == Rat(2, 13)           \* line 161
K26 == Rat(2, 27)           \* line 161
K9 == Rat(2, 10)            \* line 174

\* the macdLine length below which no signal line is computed, line 170
MinMacdLine_Fewer == 9 - 1
MinMacdLine == 9

\* line 150, 165, 166, 176: value * k + ema * (1 - k)
EmaStep(ema, value, k) ==
    RAdd(RMul(value, k), RMul(ema, RSub(RInt(1), k)))

\* lines 160-166: ema12 and ema26, in order: element 1 at line 160,
\* element e + 1 after the iteration i = e of the loop of line 164
RECURSIVE Emas(_, _)
Emas(cl, e) ==
    IF e = 0 THEN <<[ema12 |-> RInt(cl[1]), ema26 |-> RInt(cl[1])]>>
    ELSE LET prev == Emas(cl, e - 1)
             last == prev[Len(prev)]
         IN Append(prev,
                   [ema12 |-> EmaStep(last.ema12, RInt(cl[e + 1]), K12),
                    ema26 |-> EmaStep(last.ema26, RInt(cl[e + 1]), K26)])

\* lines 162-168: the iterations i >= 25 push ema12 - ema26
MacdLine(cl) ==
    LET emas == Emas(cl, Len(cl) - 1)
    IN [j \in 1..(Len(cl) - 25) |->
            RSub(emas[j + 25].ema12, emas[j + 25].ema26)]

\* lines 173-177: signal, in order: element 1 at line 173, element e + 1
\* after the iteration i = e of the loop of line 175
RECURSIVE Signals(_, _)
Signals(ml, e) ==
    IF e = 0 THEN <<ml[1]>>
    ELSE LET prev == Signals(ml, e - 1)
         IN Append(prev, EmaStep(prev[Len(prev)], ml[e + 1], K9))

\* calcMACD of candles whose closes are cl
CalcMACDExact(cl) ==
    IF Len(cl) < 26
    THEN [macd |-> RInt(0), signal |-> RInt(0), hist |-> RInt(0)]
    ELSE LET ml == MacdLine(cl)
         IN IF Len(ml) < MinMacdLine
            THEN [macd |-> ml[Len(ml)], signal |-> RInt(0), hist |-> RInt(0)]
            ELSE LET sg == Signals(ml, Len(ml) - 1)
                     signal == sg[Len(sg)]
                 IN [macd |-> ml[Len(ml)],
                     signal |-> signal,
                     hist |-> RSub(ml[Len(ml)], signal)]

\* ---- the close series calcMACD is applied to ----
MacdLevels == {97, 100}

MacdBaseLengths == {1, 24, 25, 26, 32, 33, 34}

MacdTails == TailsOf(0) \cup TailsOf(1) \cup TailsOf(2)

\* a level held for m closes, then up to two closes that move
MacdCloses ==
    {<<>>} \cup {Extend([k \in 1..m |-> lv], t) :
                    lv \in MacdLevels, m \in MacdBaseLengths, t \in MacdTails}

InitMacd ==
    /\ closes \in MacdCloses
    /\ rsiLive = <<>>
    /\ rsiSeries = <<>>
    /\ macdLive = <<>>
    /\ done = {}
    /\ BacktestOff
    /\ ScoreOff
    /\ MainOff
    /\ CollectOff

\* signal.js: calcMACD(candles) returns
CalcMACDLive ==
    /\ "calcMACD" \notin done
    /\ macdLive' = CalcMACDExact(closes)
    /\ done' = done \cup {"calcMACD"}
    /\ UNCHANGED <<closes, rsiLive, rsiSeries>>
    /\ UNCHANGED <<btVars, scoreVars, mainVars, collectVars>>

NextMacd == CalcMACDLive

SpecMacd == InitMacd /\ [][NextMacd]_vars

\* C25 as stated: all zero below 26 closes, signal = hist = 0 from 26 to 34
\* closes, a non-zero signal only from 35 closes on
C25_Original ==
    "calcMACD" \in done =>
        /\ Len(closes) < 26 =>
               macdLive = [macd |-> RInt(0), signal |-> RInt(0),
                           hist |-> RInt(0)]
        /\ Len(closes) >= 26 /\ Len(closes) < 35 =>
               macdLive.signal = RInt(0) /\ macdLive.hist = RInt(0)
        /\ macdLive.signal # RInt(0) => Len(closes) >= 35

\* C25, amended: all zero below 26 closes; from 26 to 33 closes the MACD
\* line only, signal = hist = 0; a non-zero signal only from 34 closes on,
\* and then hist = macd - signal
C25_SignalFrom34 ==
    "calcMACD" \in done =>
        /\ Len(closes) < 26 =>
               macdLive = [macd |-> RInt(0), signal |-> RInt(0),
                           hist |-> RInt(0)]
        /\ Len(closes) >= 26 /\ Len(closes) < 34 =>
               /\ macdLive.signal = RInt(0)
               /\ macdLive.hist = RInt(0)
               /\ macdLive.macd = MacdLine(closes)[Len(closes) - 25]
        /\ macdLive.signal # RInt(0) => Len(closes) >= 34
        /\ Len(closes) >= 34 =>
               macdLive.hist = RSub(macdLive.macd, macdLive.signal)

\* 33 closes at 100 and a 34th at 103: macd = 28/117, signal = 28/585
C25_Witness ==
    /\ "calcMACD" \in done
    /\ Len(closes) = 34
    /\ closes[33] = 100
    /\ closes[34] = 103
    /\ macdLive.macd = Rat(28, 117)
    /\ macdLive.signal = Rat(28, 585)
    /\ macdLive.hist = Rat(112, 585)


(***************************************************************************)
(* signal.js, collectData (lines 29-112) followed by lines 389-392 of      *)
(* main.  The eight requests of line 36 are in flight together and settle  *)
(* in any order.  A request ends in one of three ways (fetch, lines        *)
(* 17-25): "value", a response that carries the datum; "unusable", a       *)
(* response that parses to null (line 22, catch) or carries no data rows;  *)
(* "failed", a rejection (line 23: network error or the 10 s timeout).     *)
(***************************************************************************)
Tasks == 1..8

Outcomes == {"value", "unusable", "failed"}

\* the fields the .then callback of task t assigns for a response that
\* carries the datum
ValueFields(t) ==
    CASE t = 1 -> "fundingRate" :> -20                              \* line 39
      [] t = 2 -> "fundingHistory" :> <<-3, -3, -3, 0, 0, 0>>      \* line 44
      [] t = 3 -> "oi" :> 1                                         \* line 49
      [] t = 4 -> ("longShortCurrent" :> 400) @@ ("longShortPrev" :> 100)
      [] t = 5 -> ("marginLending" :> 1) @@ ("marginLendingPrev" :> 1)
      [] t = 6 -> "candles" :> Candles(50, TRUE, TRUE, 15, 5, 5, -10)
      [] t = 7 -> "fearGreed" :> 5                                  \* line 90
      [] t = 8 -> ("liqLong" :> 9) @@ ("liqShort" :> 1)

\* the fields the .then callback of task t assigns when r is null or
\* r.data is missing or empty: the || fallbacks of lines 39, 44, 49 and 90
\* assign a default, the guards of lines 55, 65, 75 and 96 assign nothing
UnusableFields(t) ==
    CASE t = 1 -> "fundingRate" :> 0          \* parseFloat(undefined || 0)
      [] t = 2 -> "fundingHistory" :> <<>>    \* (undefined || []).map(...)
      [] t = 3 -> "oi" :> 0                   \* parseFloat(undefined || 0)
      [] t = 7 -> "fearGreed" :> 50           \* parseInt(undefined || 50)
      [] OTHER -> <<>>

\* what task t adds to data: a rejected fetch skips .then, and the
\* .catch(() => {}) of the task swallows the rejection
FieldsOf(t, o) ==
    CASE o = "value" -> ValueFields(t)
      [] o = "unusable" -> UnusableFields(t)
      [] o = "failed" -> <<>>

\* the state of the promise of a task in the tasks array: the
\* .catch(() => {}) that ends every chain fulfils it after a rejection
TaskPromise(o) == "fulfilled"

InitCollect ==
    /\ pending = Tasks
    /\ outcome = <<>>
    /\ cpc = "collecting"
    /\ ScoreOff
    /\ BacktestOff
    /\ MainOff
    /\ IndOff

\* the request of task t ends with outcome o and its callbacks run
Settle(t, o) ==
    /\ cpc = "collecting"
    /\ t \in pending
    /\ pending' = pending \ {t}
    /\ outcome' = (t :> o) @@ outcome
    /\ data' = FieldsOf(t, o) @@ data
    /\ UNCHANGED <<cpc, scores, total, label, spc>>
    /\ UNCHANGED <<btVars, mainVars, indVars>>

\* line 110-111: Promise.all fulfils once every task promise has, and
\* collectData returns data to line 389 of main
Resolve ==
    /\ cpc = "collecting"
    /\ pending = {}
    /\ \A t \in Tasks : TaskPromise(outcome[t]) = "fulfilled"
    /\ cpc' = "resolved"
    /\ spc' = "collected"
    /\ UNCHANGED <<pending, outcome, data, scores, total, label>>
    /\ UNCHANGED <<btVars, mainVars, indVars>>

NextCollect ==
    \/ \E t \in Tasks, o \in Outcomes : Settle(t, o)
    \/ Resolve
    \/ ScoreSignals
    \/ AggregateAndLabel

SpecCollect == InitCollect /\ [][NextCollect]_vars

\* the fields of the snapshot task t is responsible for
TaskFields(t) ==
    CASE t = 1 -> {"fundingRate"}
      [] t = 2 -> {"fundingHistory"}
      [] t = 3 -> {"oi"}
      [] t = 4 -> {"longShortCurrent", "longShortPrev"}
      [] t = 5 -> {"marginLending", "marginLendingPrev"}
      [] t = 6 -> {"candles"}
      [] t = 7 -> {"fearGreed"}
      [] t = 8 -> {"liqLong", "liqShort"}

\* the factors scoreSignals scores from the fields of task t
TaskFactors(t) ==
    CASE t = 1 -> {"funding"}
      [] t = 2 -> {"fundingTrend"}
      [] t = 4 -> {"longShort"}
      [] t = 6 -> {"rsi", "macd", "bollinger"}
      [] t = 7 -> {"fearGreed"}
      [] t = 8 -> {"liquidation"}
      [] OTHER -> {}

\* C30: collectData resolves whatever the outcomes of its eight requests,
\* and for every request without a usable value the fields of that request
\* are absent from the snapshot and its factors are absent from the scores
C30_NoValueLeavesAbsent ==
    /\ cpc = "collecting" /\ pending = {} => ENABLED Resolve
    /\ cpc = "resolved" =>
        \A t \in Tasks :
            outcome[t] # "value" =>
                /\ TaskFields(t) \cap DOMAIN data = {}
                /\ spc \in {"scored", "done"} =>
                       TaskFactors(t) \cap DOMAIN scores = {}

\* what holds instead: collectData resolves whatever the outcomes, and a
\* request that failed leaves its fields absent and its factors unscored
FailedLeavesAbsent ==
    /\ cpc = "collecting" /\ pending = {} => ENABLED Resolve
    /\ cpc = "resolved" =>
        \A t \in Tasks :
            outcome[t] = "failed" =>
                /\ TaskFields(t) \cap DOMAIN data = {}
                /\ spc \in {"scored", "done"} =>
                       TaskFactors(t) \cap DOMAIN scores = {}

\* and an unusable funding-rate or fear-greed response is scored as a
\* neutral factor that counts in the weights
DefaultsAreScored ==
    cpc = "resolved" /\ spc \in {"scored", "done"} =>
        /\ outcome[1] = "unusable" =>
               "funding" \in DOMAIN scores /\ scores["funding"] = 0
        /\ outcome[7] = "unusable" =>
               "fearGreed" \in DOMAIN scores /\ scores["fearGreed"] = 0

=============================================================================
